---- MODULE Spec2Model ----
(***************************************************************************)
(* A model of the JSON lexer and recursive-descent parser of json-parser   *)
(* (src/src/lexer.rs, src/src/parser.rs).                                  *)
(*                                                                         *)
(* Characters are Unicode code points (naturals); a text is a sequence of  *)
(* code points.  The lexer is a family of operators over (input, pos),     *)
(* where pos is the number of characters the Peekable<Chars> iterator has  *)
(* handed out with next().  The parser is a state machine: one action per  *)
(* block of parse_value / parse_object / parse_array, with the recursion   *)
(* made explicit as a stack of frames.                                     *)
(***************************************************************************)
EXTENDS Integers, Sequences, FiniteSets, TLC

VARIABLES
    src,            \* the lexemes the input text was assembled from
    input,          \* Lexer.input: the text, a sequence of code points
    pos,            \* Lexer.input: characters consumed so far
    current_token,  \* Parser.current_token: Option<Token>
    stack,          \* the open parse_object / parse_array activations
    value,          \* the local `value` of Parser::parse
    pc,             \* where the parse is
    result,         \* what parse_json returned
    calls,          \* history: the calls of Lexer::next_token made so far
    consumed        \* history: the calls of Parser::advance_token made so far

vars == <<src, input, pos, current_token, stack, value, pc, result, calls, consumed>>

-----------------------------------------------------------------------------
(* Characters named by the lexer. *)

Ch ==
    [ lbrace |-> 123, rbrace |-> 125, lbracket |-> 91, rbracket |-> 93,
      colon |-> 58, comma |-> 44, quote |-> 34, backslash |-> 92,
      slash |-> 47, minus |-> 45, plus |-> 43, dot |-> 46,
      b |-> 98, f |-> 102, n |-> 110, r |-> 114, t |-> 116, u |-> 117,
      e |-> 101, E |-> 69, a |-> 97, l |-> 108, s |-> 115,
      backspace |-> 8, formfeed |-> 12, newline |-> 10, cr |-> 13, tab |-> 9,
      space |-> 32, zero |-> 48, nine |-> 57 ]

NoChar == 0 - 1

(* is_whitespace gone wrong: the space is the only whitespace. *)
is_whitespace_space_only(c) == c = Ch.space

(* char::is_whitespace: the Unicode White_Space property. *)
is_whitespace(c) ==
    \/ c \in 9..13
    \/ c \in {32, 133, 160, 5760, 8232, 8233, 8239, 8287, 12288}
    \/ c \in 8192..8202

(* char::is_digit(10). *)
is_digit(c) == c \in Ch.zero..Ch.nine

(* char::to_digit(16): the value of a hexadecimal digit, or NoChar. *)
to_digit16(c) ==
    IF c \in 48..57 THEN c - 48
    ELSE IF c \in 97..102 THEN c - 87
    ELSE IF c \in 65..70 THEN c - 55
    ELSE NoChar

-----------------------------------------------------------------------------
(* f64.  A number is held as an exact decimal, neg * mant * 10^exp with    *)
(* mant free of trailing zeros; two lexemes denote the same f64 exactly    *)
(* when their decimals agree as long as mant has at most 15 digits and the *)
(* value is within the range of f64, which the bounds of the model keep.   *)

Zero == [neg |-> FALSE, mant |-> 0, exp |-> 0]

RECURSIVE Normalize(_, _, _)
Normalize(neg, mant, exp) ==
    IF mant = 0 THEN [neg |-> neg, mant |-> 0, exp |-> 0]
    ELSE IF mant % 10 = 0 THEN Normalize(neg, mant \div 10, exp + 1)
    ELSE [neg |-> neg, mant |-> mant, exp |-> exp]

RECURSIVE DigitsValue(_, _)
(* The natural a run of decimal digits denotes, continuing from acc. *)
DigitsValue(ds, acc) ==
    IF ds = <<>> THEN acc
    ELSE DigitsValue(Tail(ds), acc * 10 + (Head(ds) - Ch.zero))

RECURSIVE DigitRun(_, _)
(* The length of the run of digits of s that starts after index i. *)
DigitRun(s, i) ==
    IF i < Len(s) /\ is_digit(s[i + 1]) THEN 1 + DigitRun(s, i + 1) ELSE 0

(* str::parse::<f64> on the lexemes read_number builds: an optional sign,  *)
(* digits, an optional fraction and an optional exponent.  The scan keeps  *)
(* the index i reached, the mantissa digits read so far as a natural, the  *)
(* number nfrac of them after the point and the exponent written.          *)
F64Digits(s, d, n) ==
    [d EXCEPT !.i = d.i + n, !.ok = d.ok /\ n > 0,
              !.mant = DigitsValue(SubSeq(s, d.i + 1, d.i + n), d.mant)]

F64Sign(s) ==
    IF Len(s) > 0 /\ s[1] = Ch.minus
    THEN [i |-> 1, neg |-> TRUE, mant |-> 0, nfrac |-> 0, exp |-> 0, ok |-> TRUE]
    ELSE [i |-> 0, neg |-> FALSE, mant |-> 0, nfrac |-> 0, exp |-> 0, ok |-> TRUE]

F64Int(s, d) == F64Digits(s, d, DigitRun(s, d.i))

F64FracDigits(s, d, n) == [F64Digits(s, d, n) EXCEPT !.nfrac = n]

F64Frac(s, d) ==
    IF d.i < Len(s) /\ s[d.i + 1] = Ch.dot
    THEN F64FracDigits(s, [d EXCEPT !.i = d.i + 1], DigitRun(s, d.i + 1))
    ELSE d

F64ExpDigits(s, d, eneg, n) ==
    [d EXCEPT !.i = d.i + n, !.ok = d.ok /\ n > 0,
              !.exp = IF eneg THEN 0 - DigitsValue(SubSeq(s, d.i + 1, d.i + n), 0)
                      ELSE DigitsValue(SubSeq(s, d.i + 1, d.i + n), 0)]

F64ExpSign(s, d) ==
    IF d.i < Len(s) /\ s[d.i + 1] \in {Ch.plus, Ch.minus}
    THEN F64ExpDigits(s, [d EXCEPT !.i = d.i + 1], s[d.i + 1] = Ch.minus,
                      DigitRun(s, d.i + 1))
    ELSE F64ExpDigits(s, d, FALSE, DigitRun(s, d.i))

F64Exp(s, d) ==
    IF d.i < Len(s) /\ s[d.i + 1] \in {Ch.e, Ch.E}
    THEN F64ExpSign(s, [d EXCEPT !.i = d.i + 1])
    ELSE d

F64Value(s, d) ==
    IF d.ok /\ d.i = Len(s)
    THEN [ok |-> TRUE, val |-> Normalize(d.neg, d.mant, d.exp - d.nfrac)]
    ELSE [ok |-> FALSE, val |-> Zero]

F64Parse(s) == F64Value(s, F64Exp(s, F64Frac(s, F64Int(s, F64Sign(s)))))

-----------------------------------------------------------------------------
(* Token, JsonValue and JsonError.  Every record of a kind has the same    *)
(* fields; the ones a variant does not carry hold a fixed default.         *)

Tok(type, b, n, s) == [type |-> type, b |-> b, n |-> n, s |-> s]
NoToken            == Tok("None", FALSE, Zero, <<>>)
TokNull            == Tok("Null", FALSE, Zero, <<>>)
TokBoolean(b)      == Tok("Boolean", b, Zero, <<>>)
TokNumber(n)       == Tok("Number", FALSE, n, <<>>)
TokString(s)       == Tok("String", FALSE, Zero, s)
TokPunct(type)     == Tok(type, FALSE, Zero, <<>>)

Val(type, b, n, s, items, fields) ==
    [type |-> type, b |-> b, n |-> n, s |-> s, items |-> items, fields |-> fields]
NoValue            == Val("None", FALSE, Zero, <<>>, <<>>, <<>>)
JsonNull           == Val("Null", FALSE, Zero, <<>>, <<>>, <<>>)
JsonBoolean(b)     == Val("Boolean", b, Zero, <<>>, <<>>, <<>>)
JsonNumber(n)      == Val("Number", FALSE, n, <<>>, <<>>, <<>>)
JsonString(s)      == Val("String", FALSE, Zero, s, <<>>, <<>>)
JsonArray(items)   == Val("Array", FALSE, Zero, <<>>, items, <<>>)
JsonObject(fields) == Val("Object", FALSE, Zero, <<>>, <<>>, fields)

(* JsonError: kind is the variant; for the variants that carry a String,   *)
(* msg names the fixed text of the message, chars holds the characters put *)
(* into it and tok the token formatted into it with {:?}.                  *)
Err(kind, msg, chars, tok) == [kind |-> kind, msg |-> msg, chars |-> chars, tok |-> tok]
NoError                    == Err("None", "", <<>>, NoToken)
UnexpectedEof              == Err("UnexpectedEof", "", <<>>, NoToken)
UnexpectedChar(c)          == Err("UnexpectedToken", "{char}", <<c>>, NoToken)
UnexpectedToken(msg, tok)  == Err("UnexpectedToken", msg, <<>>, tok)
InvalidNumber(msg, chars)  == Err("InvalidNumber", msg, chars, NoToken)
InvalidEscapeSequence(c)   == Err("InvalidEscapeSequence", "{char}", <<c>>, NoToken)
InvalidUnicodeSequence(cs) == Err("InvalidUnicodeSequence", "{chars}", cs, NoToken)

(* Result<JsonValue>. *)
Pending    == [kind |-> "Pending", value |-> NoValue, error |-> NoError]
Ok(v)      == [kind |-> "Ok", value |-> v, error |-> NoError]
Failed(e)  == [kind |-> "Err", value |-> NoValue, error |-> e]

-----------------------------------------------------------------------------
(* The lexer.  Every operator returns what the call returns and the        *)
(* position it leaves the cursor at.                                       *)

LexTok(tok, p) == [kind |-> "tok", tok |-> tok, error |-> NoError, pos |-> p]
LexEof(p)      == [kind |-> "eof", tok |-> NoToken, error |-> NoError, pos |-> p]
LexErr(e, p)   == [kind |-> "err", tok |-> NoToken, error |-> e, pos |-> p]

(* Peekable::peek: the next character, not consumed. *)
Peek(text, p) == IF p < Len(text) THEN text[p + 1] ELSE NoChar

RECURSIVE skip_whitespace(_, _)
skip_whitespace(text, p) ==
    IF p < Len(text) /\ is_whitespace(text[p + 1])
    THEN skip_whitespace(text, p + 1)
    ELSE p

(* u32::from_str_radix(code_point, 16): a leading '+' is accepted when     *)
(* digits follow it; every other character must be a hexadecimal digit.    *)
RECURSIVE HexValue(_, _)
HexValue(ds, acc) ==
    IF ds = <<>> THEN acc
    ELSE IF to_digit16(Head(ds)) = NoChar THEN NoChar
    ELSE HexValue(Tail(ds), acc * 16 + to_digit16(Head(ds)))

from_str_radix16(cs) ==
    IF cs = <<>> THEN NoChar
    ELSE IF Head(cs) = Ch.plus
         THEN (IF Len(cs) = 1 THEN NoChar ELSE HexValue(Tail(cs), 0))
    ELSE HexValue(cs, 0)

(* char::from_u32: no character for a surrogate or beyond U+10FFFF. *)
from_u32(cp) == IF cp \in 55296..57343 \/ cp > 1114111 THEN NoChar ELSE cp

(* SimpleEscape gone wrong: the letter of an escape is pushed as it is. *)
SimpleEscape_verbatim(c) ==
    IF c \in {Ch.quote, Ch.backslash, Ch.slash, Ch.b, Ch.f, Ch.n, Ch.r, Ch.t}
    THEN c
    ELSE NoChar

(* The character a simple escape stands for, or NoChar. *)
SimpleEscape(c) ==
    CASE c = Ch.quote     -> Ch.quote
      [] c = Ch.backslash -> Ch.backslash
      [] c = Ch.slash     -> Ch.slash
      [] c = Ch.b         -> Ch.backspace
      [] c = Ch.f         -> Ch.formfeed
      [] c = Ch.n         -> Ch.newline
      [] c = Ch.r         -> Ch.cr
      [] c = Ch.t         -> Ch.tab
      [] OTHER            -> NoChar

(* The character of a \u escape whose four characters are code_point, or  *)
(* NoChar: from_str_radix, then char::from_u32.                            *)
UnicodeChar(cp) == IF cp = NoChar THEN NoChar ELSE from_u32(cp)

RECURSIVE read_string(_, _, _)

(* The arm 'u' of the escape match, with the characters read for it. *)
unicode_escape(text, p, string, code_point, unicode_char) ==
    IF Len(code_point) < 4 \/ unicode_char = NoChar
    THEN LexErr(InvalidUnicodeSequence(code_point), p + Len(code_point))
    ELSE read_string(text, p + 4, Append(string, unicode_char))

UnicodeDigits(text, p) ==
    SubSeq(text, p + 1, IF p + 4 <= Len(text) THEN p + 4 ELSE Len(text))

(* escape gone wrong: a character that begins no escape stands for itself. *)
escape_lenient(text, p, string, escape_char) ==
    IF SimpleEscape(escape_char) # NoChar
    THEN read_string(text, p, Append(string, SimpleEscape(escape_char)))
    ELSE IF escape_char = Ch.u
    THEN unicode_escape(text, p, string, UnicodeDigits(text, p),
                        UnicodeChar(from_str_radix16(UnicodeDigits(text, p))))
    ELSE read_string(text, p, Append(string, escape_char))

(* The match on the character after a backslash. *)
escape(text, p, string, escape_char) ==
    IF SimpleEscape(escape_char) # NoChar
    THEN read_string(text, p, Append(string, SimpleEscape(escape_char)))
    ELSE IF escape_char = Ch.u
    THEN unicode_escape(text, p, string, UnicodeDigits(text, p),
                        UnicodeChar(from_str_radix16(UnicodeDigits(text, p))))
    ELSE LexErr(InvalidEscapeSequence(escape_char), p)

(* read_string gone wrong: the end of the input closes the string. *)
read_string_eof_closes(text, p, string) ==
    IF p >= Len(text) THEN LexTok(TokString(string), p)
    ELSE IF text[p + 1] = Ch.quote THEN LexTok(TokString(string), p + 1)
    ELSE IF text[p + 1] = Ch.backslash
    THEN (IF p + 1 >= Len(text) THEN LexErr(UnexpectedEof, p + 1)
          ELSE escape(text, p + 2, string, text[p + 2]))
    ELSE read_string(text, p + 1, Append(string, text[p + 1]))

read_string(text, p, string) ==
    IF p >= Len(text) THEN LexErr(UnexpectedEof, p)
    ELSE IF text[p + 1] = Ch.quote THEN LexTok(TokString(string), p + 1)
    ELSE IF text[p + 1] = Ch.backslash
    THEN (IF p + 1 >= Len(text) THEN LexErr(UnexpectedEof, p + 1)
          ELSE escape(text, p + 2, string, text[p + 2]))
    ELSE read_string(text, p + 1, Append(string, text[p + 1]))

RECURSIVE match_literal(_, _, _, _, _)

(* match_literal gone wrong: the error names the character expected. *)
match_literal_names_expected(text, p, expected, i, tok) ==
    IF i > Len(expected) THEN LexTok(tok, p)
    ELSE IF p >= Len(text) THEN LexErr(UnexpectedEof, p)
    ELSE IF text[p + 1] = expected[i]
         THEN match_literal(text, p + 1, expected, i + 1, tok)
    ELSE LexErr(UnexpectedChar(expected[i]), p + 1)

(* The loop of read_null and read_boolean: match the characters of         *)
(* expected from index i on against the input.                             *)
match_literal(text, p, expected, i, tok) ==
    IF i > Len(expected) THEN LexTok(tok, p)
    ELSE IF p >= Len(text) THEN LexErr(UnexpectedEof, p)
    ELSE IF text[p + 1] = expected[i]
         THEN match_literal(text, p + 1, expected, i + 1, tok)
    ELSE LexErr(UnexpectedChar(text[p + 1]), p + 1)

read_null(text, p) ==
    match_literal(text, p + 1, <<Ch.n, Ch.u, Ch.l, Ch.l>>, 2, TokNull)

(* read_boolean gone wrong: both literals give Boolean(true). *)
read_boolean_always_true(text, p) ==
    IF Peek(text, p) = Ch.t
    THEN match_literal(text, p, <<Ch.t, Ch.r, Ch.u, Ch.e>>, 1, TokBoolean(TRUE))
    ELSE IF Peek(text, p) = Ch.f
    THEN match_literal(text, p, <<Ch.f, Ch.a, Ch.l, Ch.s, Ch.e>>, 1, TokBoolean(TRUE))
    ELSE LexErr(UnexpectedToken("Expected 'true' or 'false'", NoToken), p)

read_boolean(text, p) ==
    IF Peek(text, p) = Ch.t
    THEN match_literal(text, p, <<Ch.t, Ch.r, Ch.u, Ch.e>>, 1, TokBoolean(TRUE))
    ELSE IF Peek(text, p) = Ch.f
    THEN match_literal(text, p, <<Ch.f, Ch.a, Ch.l, Ch.s, Ch.e>>, 1, TokBoolean(FALSE))
    ELSE LexErr(UnexpectedToken("Expected 'true' or 'false'", NoToken), p)

(* read_number.  num is the scan so far: the cursor, number_str and        *)
(* whether every read_digits so far found a digit (a failed read_digits    *)
(* returns from read_number through `?`).                                  *)
PushNext(text, num) ==
    [num EXCEPT !.pos = num.pos + 1,
                !.number_str = Append(num.number_str, text[num.pos + 1])]

(* read_digits gone wrong: a run without a digit is let through. *)
read_digits_lenient(text, num) ==
    IF ~num.ok THEN num
    ELSE [ ok         |-> TRUE,
           pos        |-> num.pos + DigitRun(text, num.pos),
           number_str |-> num.number_str \o
                          SubSeq(text, num.pos + 1, num.pos + DigitRun(text, num.pos)) ]

(* read_digits: the digits are pushed to number_str; there must be one. *)
read_digits(text, num) ==
    IF ~num.ok THEN num
    ELSE [ ok         |-> DigitRun(text, num.pos) > 0,
           pos        |-> num.pos + DigitRun(text, num.pos),
           number_str |-> num.number_str \o
                          SubSeq(text, num.pos + 1, num.pos + DigitRun(text, num.pos)) ]

(* Handle negative sign. *)
number_sign(text, num) ==
    IF Peek(text, num.pos) = Ch.minus THEN PushNext(text, num) ELSE num

(* Fractional part. *)
number_fraction(text, num) ==
    IF num.ok /\ Peek(text, num.pos) = Ch.dot
    THEN read_digits(text, PushNext(text, num))
    ELSE num

(* exponent_sign gone wrong: the sign is consumed and not pushed. *)
exponent_sign_dropped(text, num) ==
    IF Peek(text, num.pos) \in {Ch.plus, Ch.minus}
    THEN [num EXCEPT !.pos = num.pos + 1]
    ELSE num

(* Handle exponent sign. *)
exponent_sign(text, num) ==
    IF Peek(text, num.pos) \in {Ch.plus, Ch.minus} THEN PushNext(text, num) ELSE num

(* Exponent part. *)
number_exponent(text, num) ==
    IF num.ok /\ Peek(text, num.pos) \in {Ch.e, Ch.E}
    THEN read_digits(text, exponent_sign(text, PushNext(text, num)))
    ELSE num

(* number_str.parse::<f64>() and the token or error made of it. *)
number_parsed(num, parsed) ==
    IF parsed.ok THEN LexTok(TokNumber(parsed.val), num.pos)
    ELSE LexErr(InvalidNumber("{number_str}", num.number_str), num.pos)

number_token(num) ==
    IF ~num.ok
    THEN LexErr(InvalidNumber("Expected at least one digit", <<>>), num.pos)
    ELSE number_parsed(num, F64Parse(num.number_str))

read_number(text, p) ==
    number_token(
        number_exponent(text,
            number_fraction(text,
                read_digits(text,
                    number_sign(text, [ok |-> TRUE, pos |-> p, number_str |-> <<>>])))))

(* The match of next_token on the character peeked after the whitespace. *)
dispatch(text, p, c) ==
    CASE c = NoChar      -> LexEof(p)
      [] c = Ch.lbrace   -> LexTok(TokPunct("LeftBrace"), p + 1)
      [] c = Ch.rbrace   -> LexTok(TokPunct("RightBrace"), p + 1)
      [] c = Ch.lbracket -> LexTok(TokPunct("LeftBracket"), p + 1)
      [] c = Ch.rbracket -> LexTok(TokPunct("RightBracket"), p + 1)
      [] c = Ch.colon    -> LexTok(TokPunct("Colon"), p + 1)
      [] c = Ch.comma    -> LexTok(TokPunct("Comma"), p + 1)
      [] c = Ch.quote    -> read_string(text, p + 1, <<>>)
      [] c = Ch.n        -> read_null(text, p)
      [] c \in {Ch.t, Ch.f} -> read_boolean(text, p)
      [] is_digit(c) \/ c = Ch.minus -> read_number(text, p)
      [] OTHER           -> LexErr(UnexpectedChar(c), p)

AfterWhitespace(text, p) == dispatch(text, p, Peek(text, p))

next_token(text, p) == AfterWhitespace(text, skip_whitespace(text, p))

-----------------------------------------------------------------------------
(* The parser.  A state of the parse is the record of the variables below; *)
(* every block of the parser is an operator from state to state, and the   *)
(* actions apply them to the variables.                                    *)

Frame(kind) == [kind |-> kind, object |-> <<>>, array |-> <<>>, key |-> <<>>]

Top(s) == s.stack[Len(s.stack)]
Pop(s) == [s EXCEPT !.stack = SubSeq(s.stack, 1, Len(s.stack) - 1)]
SetTop(s, frame) == [s EXCEPT !.stack[Len(s.stack)] = frame]

(* An error leaves parse_json through every `?`: the parse is over. *)
Fail(s, e) == [s EXCEPT !.pc = "done", !.result = Failed(e)]

(* Called gone wrong: the cursor is put back where the call began. *)
Called_rewinds(s, r) ==
    [s EXCEPT !.calls = Append(@, [from |-> s.pos, kind |-> r.kind,
                                   tok |-> r.tok, pos |-> r.pos])]

(* A call of Lexer::next_token that began with the cursor at s.pos and     *)
(* returned r: the cursor is where the call left it, and the call is       *)
(* written down in the history.                                            *)
Called(s, r) ==
    [s EXCEPT !.pos = r.pos,
              !.calls = Append(@, [from |-> s.pos, kind |-> r.kind,
                                   tok |-> r.tok, pos |-> r.pos])]

(* TakeToken gone wrong: an error of the lexer is taken for the end of the *)
(* input.                                                                  *)
TakeToken_error_is_end(s, r) == [Called(s, r) EXCEPT !.current_token = r.tok]

(* `self.lexer.next_token()?` assigned to current_token: current_token is  *)
(* assigned only when the lexer returned no error.                         *)
TakeToken(s, r) ==
    IF r.kind = "err"
    THEN Fail(Called(s, r), r.error)
    ELSE [Called(s, r) EXCEPT !.current_token = r.tok]

(* advance_token gone wrong: the lexer is asked for two tokens and the     *)
(* first of them is dropped.                                               *)
TakeAnother(s) == IF s.pc = "done" THEN s ELSE TakeToken(s, next_token(s.input, s.pos))

advance_token_twice(s) ==
    TakeAnother(TakeToken([s EXCEPT !.consumed = @ + 1], next_token(s.input, s.pos)))

(* Parser::advance_token: the parser leaves the token it holds behind and  *)
(* asks the lexer for the next one.                                        *)
advance_token(s) ==
    TakeToken([s EXCEPT !.consumed = @ + 1], next_token(s.input, s.pos))

(* The parse goes on at `to` unless the advance_token before it failed. *)
Goto(s, to) == IF s.pc = "done" THEN s ELSE [s EXCEPT !.pc = to]

(* Insert gone wrong: an entry the map has already is kept. *)
Insert_keep_first(object, key, v) ==
    [k \in DOMAIN object \cup {key} |-> IF k \in DOMAIN object THEN object[k] ELSE v]

(* HashMap::insert: the entry of key is replaced or added. *)
Insert(object, key, v) ==
    [k \in DOMAIN object \cup {key} |-> IF k = key THEN v ELSE object[k]]

(* Return gone wrong: an element is put at the front of the array. *)
Return_prepend(s, v) ==
    IF s.pc = "done" THEN s
    ELSE IF s.stack = <<>> THEN [s EXCEPT !.value = v, !.pc = "parse_end"]
    ELSE IF Top(s).kind = "object"
    THEN [SetTop(s, [Top(s) EXCEPT !.object = Insert(Top(s).object, Top(s).key, v)])
            EXCEPT !.pc = "object_sep"]
    ELSE [SetTop(s, [Top(s) EXCEPT !.array = <<v>> \o Top(s).array])
            EXCEPT !.pc = "array_sep"]

(* parse_value hands v to its caller: parse (line 23), the member loop of  *)
(* parse_object (lines 110-113) or the element loop of parse_array (lines  *)
(* 157-160).                                                               *)
Return(s, v) ==
    IF s.pc = "done" THEN s
    ELSE IF s.stack = <<>> THEN [s EXCEPT !.value = v, !.pc = "parse_end"]
    ELSE IF Top(s).kind = "object"
    THEN [SetTop(s, [Top(s) EXCEPT !.object = Insert(Top(s).object, Top(s).key, v)])
            EXCEPT !.pc = "object_sep"]
    ELSE [SetTop(s, [Top(s) EXCEPT !.array = Append(Top(s).array, v)])
            EXCEPT !.pc = "array_sep"]

(* parse_object or parse_array returns the container it built. *)
ReturnContainer(s) ==
    IF s.pc = "done" THEN s
    ELSE IF Top(s).kind = "object"
    THEN Return(Pop(s), JsonObject(Top(s).object))
    ELSE Return(Pop(s), JsonArray(Top(s).array))

(* Parser::new, called by parse_json. *)
Parser_new(s) == Goto(TakeToken(s, next_token(s.input, s.pos)), "parse_value")

(* The value of a token that is a value by itself. *)
Leaf(tok) ==
    CASE tok.type = "Null"    -> JsonNull
      [] tok.type = "Boolean" -> JsonBoolean(tok.b)
      [] tok.type = "Number"  -> JsonNumber(tok.n)
      [] tok.type = "String"  -> JsonString(tok.s)

(* parse_value gone wrong: the token that starts no value is consumed      *)
(* before the error is returned.                                           *)
parse_value_consumes(s) ==
    CASE s.current_token.type \in {"Null", "Boolean", "Number", "String"} ->
            Return(advance_token(s), Leaf(s.current_token))
      [] s.current_token.type = "LeftBrace" ->
            [s EXCEPT !.stack = Append(s.stack, Frame("object")), !.pc = "parse_object"]
      [] s.current_token.type = "LeftBracket" ->
            [s EXCEPT !.stack = Append(s.stack, Frame("array")), !.pc = "parse_array"]
      [] s.current_token.type = "None" -> Fail(s, UnexpectedEof)
      [] OTHER -> Fail(advance_token(s), UnexpectedToken("{:?}", s.current_token))

(* parse_value gone wrong: at the end of the input the lexer is asked once *)
(* more before the error is returned.                                      *)
parse_value_asks_again(s) ==
    CASE s.current_token.type \in {"Null", "Boolean", "Number", "String"} ->
            Return(advance_token(s), Leaf(s.current_token))
      [] s.current_token.type = "LeftBrace" ->
            [s EXCEPT !.stack = Append(s.stack, Frame("object")), !.pc = "parse_object"]
      [] s.current_token.type = "LeftBracket" ->
            [s EXCEPT !.stack = Append(s.stack, Frame("array")), !.pc = "parse_array"]
      [] s.current_token.type = "None" -> Fail(advance_token(s), UnexpectedEof)
      [] OTHER -> Fail(s, UnexpectedToken("{:?}", s.current_token))

parse_value(s) ==
    CASE s.current_token.type \in {"Null", "Boolean", "Number", "String"} ->
            Return(advance_token(s), Leaf(s.current_token))
      [] s.current_token.type = "LeftBrace" ->
            [s EXCEPT !.stack = Append(s.stack, Frame("object")), !.pc = "parse_object"]
      [] s.current_token.type = "LeftBracket" ->
            [s EXCEPT !.stack = Append(s.stack, Frame("array")), !.pc = "parse_array"]
      [] s.current_token.type = "None" -> Fail(s, UnexpectedEof)
      [] OTHER -> Fail(s, UnexpectedToken("{:?}", s.current_token))

(* EmptyObject gone wrong: a key is expected right after the brace. *)
EmptyObject_key_expected(s) == IF s.pc = "done" THEN s ELSE [s EXCEPT !.pc = "object_key"]

(* parse_object up to its loop: the opening brace has been consumed. *)
EmptyObject(s) ==
    IF s.pc = "done" THEN s
    ELSE IF s.current_token.type = "RightBrace"
    THEN ReturnContainer(advance_token(s))
    ELSE [s EXCEPT !.pc = "object_key"]

parse_object_open(s) == EmptyObject(advance_token(s))

(* The key of a member. *)
SetKey(s, key) ==
    IF s.pc = "done" THEN s
    ELSE [SetTop(s, [Top(s) EXCEPT !.key = key]) EXCEPT !.pc = "object_colon"]

(* parse_object_key gone wrong: a number or a literal is taken for a key. *)
parse_object_key_any_scalar(s) ==
    CASE s.current_token.type = "String" ->
            SetKey(advance_token(s), s.current_token.s)
      [] s.current_token.type \in {"Null", "Boolean", "Number"} ->
            SetKey(advance_token(s), <<>>)
      [] s.current_token.type = "None" -> Fail(s, UnexpectedEof)
      [] OTHER ->
            Fail(s, UnexpectedToken("Expected string key, got {:?}", s.current_token))

parse_object_key(s) ==
    CASE s.current_token.type = "String" ->
            SetKey(advance_token(s), s.current_token.s)
      [] s.current_token.type = "None" -> Fail(s, UnexpectedEof)
      [] OTHER ->
            Fail(s, UnexpectedToken("Expected string key, got {:?}", s.current_token))

(* parse_object_colon gone wrong: whatever is no colon is the end of the   *)
(* input.                                                                  *)
parse_object_colon_eof(s) ==
    IF s.current_token.type = "Colon"
    THEN Goto(advance_token(s), "parse_value")
    ELSE Fail(s, UnexpectedEof)

(* parse_object_colon gone wrong: a missing colon is let through. *)
parse_object_colon_optional(s) ==
    CASE s.current_token.type = "Colon" -> Goto(advance_token(s), "parse_value")
      [] s.current_token.type = "None" -> Fail(s, UnexpectedEof)
      [] OTHER -> Goto(s, "parse_value")

(* The colon of a member; parse_value is called next. *)
parse_object_colon(s) ==
    CASE s.current_token.type = "Colon" -> Goto(advance_token(s), "parse_value")
      [] s.current_token.type = "None" -> Fail(s, UnexpectedEof)
      [] OTHER -> Fail(s, UnexpectedToken("Expected ':', got {:?}", s.current_token))

(* TrailingComma gone wrong: the closing bracket after a comma ends the    *)
(* container.                                                              *)
TrailingComma_allowed(s, closing, msg, to) ==
    IF s.pc = "done" THEN s
    ELSE IF s.current_token.type = closing
    THEN ReturnContainer(advance_token(s))
    ELSE [s EXCEPT !.pc = to]

(* Handle trailing comma (not allowed in JSON). *)
TrailingComma(s, closing, msg, to) ==
    IF s.pc = "done" THEN s
    ELSE IF s.current_token.type = closing
    THEN Fail(s, UnexpectedToken(msg, NoToken))
    ELSE [s EXCEPT !.pc = to]

(* After a member: a comma or the closing brace. *)
parse_object_sep(s) ==
    CASE s.current_token.type = "Comma" ->
            TrailingComma(advance_token(s), "RightBrace",
                          "Trailing comma in object", "object_key")
      [] s.current_token.type = "RightBrace" -> ReturnContainer(advance_token(s))
      [] s.current_token.type = "None" -> Fail(s, UnexpectedEof)
      [] OTHER ->
            Fail(s, UnexpectedToken("Expected ',' or '}', got {:?}", s.current_token))

(* parse_array up to its loop: the opening bracket has been consumed. *)
EmptyArray(s) ==
    IF s.pc = "done" THEN s
    ELSE IF s.current_token.type = "RightBracket"
    THEN ReturnContainer(advance_token(s))
    ELSE [s EXCEPT !.pc = "parse_value"]

parse_array_open(s) == EmptyArray(advance_token(s))

(* parse_array_sep gone wrong: the end of the input closes the array. *)
parse_array_sep_eof_closes(s) ==
    CASE s.current_token.type = "Comma" ->
            TrailingComma(advance_token(s), "RightBracket",
                          "Trailing comma in array", "parse_value")
      [] s.current_token.type \in {"RightBracket", "None"} ->
            ReturnContainer(advance_token(s))
      [] OTHER ->
            Fail(s, UnexpectedToken("Expected ',' or ']', got {:?}", s.current_token))

(* After an element: a comma or the closing bracket. *)
parse_array_sep(s) ==
    CASE s.current_token.type = "Comma" ->
            TrailingComma(advance_token(s), "RightBracket",
                          "Trailing comma in array", "parse_value")
      [] s.current_token.type = "RightBracket" -> ReturnContainer(advance_token(s))
      [] s.current_token.type = "None" -> Fail(s, UnexpectedEof)
      [] OTHER ->
            Fail(s, UnexpectedToken("Expected ',' or ']', got {:?}", s.current_token))

(* parse_end gone wrong: a token that remains is ignored. *)
parse_end_unchecked(s) == [s EXCEPT !.pc = "done", !.result = Ok(s.value)]

(* Parser::parse after parse_value returned: no token may remain. *)
parse_end(s) ==
    IF s.current_token.type # "None"
    THEN Fail(s, UnexpectedToken("Expected end of input", NoToken))
    ELSE [s EXCEPT !.pc = "done", !.result = Ok(s.value)]

(* The state parse_json starts from. *)
Start(text) ==
    [ input |-> text, pos |-> 0, current_token |-> NoToken, stack |-> <<>>,
      value |-> NoValue, pc |-> "new", result |-> Pending,
      calls |-> <<>>, consumed |-> 0 ]

Step(s) ==
    CASE s.pc = "new"          -> Parser_new(s)
      [] s.pc = "parse_value"  -> parse_value(s)
      [] s.pc = "parse_object" -> parse_object_open(s)
      [] s.pc = "object_key"   -> parse_object_key(s)
      [] s.pc = "object_colon" -> parse_object_colon(s)
      [] s.pc = "object_sep"   -> parse_object_sep(s)
      [] s.pc = "parse_array"  -> parse_array_open(s)
      [] s.pc = "array_sep"    -> parse_array_sep(s)
      [] s.pc = "parse_end"    -> parse_end(s)

RECURSIVE Run(_)
Run(s) == IF s.pc = "done" THEN s ELSE Run(Step(s))

(* parse_json(text): the whole parse, as the result it returns. *)
parse_json(text) == Run(Start(text)).result

-----------------------------------------------------------------------------
(* The inputs.  An input text is assembled from named lexemes, so that a   *)
(* property can speak about the tokens a text was written with.  The       *)
(* lexemes of a source are written one after the other with nothing        *)
(* between them.                                                           *)

Lexeme(p) ==
    CASE p = "{"       -> <<Ch.lbrace>>
      [] p = "}"       -> <<Ch.rbrace>>
      [] p = "["       -> <<Ch.lbracket>>
      [] p = "]"       -> <<Ch.rbracket>>
      [] p = ":"       -> <<Ch.colon>>
      [] p = ","       -> <<Ch.comma>>
      [] p = "'a'"     -> <<Ch.quote, Ch.a, Ch.quote>>
      [] p = "'b'"     -> <<Ch.quote, Ch.b, Ch.quote>>
      [] p = "null"    -> <<Ch.n, Ch.u, Ch.l, Ch.l>>
      [] p = "true"    -> <<Ch.t, Ch.r, Ch.u, Ch.e>>
      [] p = "false"   -> <<Ch.f, Ch.a, Ch.l, Ch.s, Ch.e>>
      [] p = "[]"      -> <<Ch.lbracket, Ch.rbracket>>
      [] p = "{}"      -> <<Ch.lbrace, Ch.rbrace>>
      [] p = "-2"      -> <<Ch.minus, 50>>
      \* whitespace
      [] p = "SP"      -> <<Ch.space>>
      [] p = "TAB"     -> <<Ch.tab>>
      [] p = "NL"      -> <<Ch.newline>>
      \* text that is no token
      [] p = "extra"   -> <<Ch.e, 120, Ch.t, Ch.r, Ch.a>>
      [] p = "'abc"    -> <<Ch.quote, Ch.a, Ch.b, 99>>
      \* runs of digits and the marks of a number
      [] p = "0"       -> <<48>>
      [] p = "1"       -> <<49>>
      [] p = "2"       -> <<50>>
      [] p = "3"       -> <<51>>
      [] p = "4"       -> <<52>>
      [] p = "5"       -> <<53>>
      [] p = "10"      -> <<49, 48>>
      [] p = "12"      -> <<49, 50>>
      [] p = "23"      -> <<50, 51>>
      [] p = "50"      -> <<53, 48>>
      [] p = "02"      -> <<48, 50>>
      [] p = "007"     -> <<48, 48, 55>>
      [] p = "123"     -> <<49, 50, 51>>
      [] p = "456"     -> <<52, 53, 54>>
      [] p = "-"       -> <<Ch.minus>>
      [] p = "+"       -> <<Ch.plus>>
      [] p = "."       -> <<Ch.dot>>
      [] p = "e"       -> <<Ch.e>>
      [] p = "E"       -> <<Ch.E>>
      \* the pieces of a string literal
      [] p = "QUOTE"   -> <<Ch.quote>>
      [] p = "a"       -> <<Ch.a>>
      [] p = "e-acute" -> <<233>>
      [] p = "\\\""    -> <<Ch.backslash, Ch.quote>>
      [] p = "\\\\"    -> <<Ch.backslash, Ch.backslash>>
      [] p = "\\/"     -> <<Ch.backslash, Ch.slash>>
      [] p = "\\b"     -> <<Ch.backslash, Ch.b>>
      [] p = "\\f"     -> <<Ch.backslash, Ch.f>>
      [] p = "\\n"     -> <<Ch.backslash, Ch.n>>
      [] p = "\\r"     -> <<Ch.backslash, Ch.r>>
      [] p = "\\t"     -> <<Ch.backslash, Ch.t>>
      [] p = "\\u0041" -> <<Ch.backslash, Ch.u, 48, 48, 52, 49>>
      [] p = "\\u00e9" -> <<Ch.backslash, Ch.u, 48, 48, 101, 57>>
      [] p = "\\u20AC" -> <<Ch.backslash, Ch.u, 50, 48, 65, 67>>
      [] p = "\\uD7FF" -> <<Ch.backslash, Ch.u, 68, 55, 70, 70>>
      [] p = "\\uE000" -> <<Ch.backslash, Ch.u, 69, 48, 48, 48>>
      [] p = "\\uffff" -> <<Ch.backslash, Ch.u, 102, 102, 102, 102>>
      \* a backslash, a \u without its digits, four characters after a \u
      [] p = "BACKSLASH" -> <<Ch.backslash>>
      [] p = "\\u"     -> <<Ch.backslash, Ch.u>>
      [] p = "D800"    -> <<68, 56, 48, 48>>
      [] p = "DFFF"    -> <<68, 70, 70, 70>>
      [] p = "dbff"    -> <<100, 98, 102, 102>>
      [] p = "D83D"    -> <<68, 56, 51, 68>>
      [] p = "\\uDE00" -> <<Ch.backslash, Ch.u, 68, 69, 48, 48>>
      \* single characters
      [] p = "x"       -> <<120>>
      [] p = "l"       -> <<Ch.l>>
      [] p = "U"       -> <<85>>
      [] p = "N"       -> <<78>>
      \* the beginnings of the literals
      [] p = "n"       -> <<Ch.n>>
      [] p = "nu"      -> <<Ch.n, Ch.u>>
      [] p = "nul"     -> <<Ch.n, Ch.u, Ch.l>>
      [] p = "t"       -> <<Ch.t>>
      [] p = "tr"      -> <<Ch.t, Ch.r>>
      [] p = "tru"     -> <<Ch.t, Ch.r, Ch.u>>
      [] p = "f"       -> <<Ch.f>>
      [] p = "fa"      -> <<Ch.f, Ch.a>>
      [] p = "fal"     -> <<Ch.f, Ch.a, Ch.l>>
      [] p = "fals"    -> <<Ch.f, Ch.a, Ch.l, Ch.s>>

RECURSIVE Text(_)
(* The text the lexemes of a source spell. *)
Text(ps) == IF ps = <<>> THEN <<>> ELSE Lexeme(Head(ps)) \o Text(Tail(ps))

(* The sequences over S of length at most n. *)
SeqsUpTo(S, n) == UNION {[1..k -> S] : k \in 0..n}

InsertAt(ps, i, p) == SubSeq(ps, 1, i - 1) \o <<p>> \o SubSeq(ps, i, Len(ps))

Punctuation    == {"{", "}", "[", "]", ":", ","}
Space          == {"SP", "TAB", "NL"}
NumberLexemes  == {"1", "2", "3", "-2"}
StringLexemes  == {"'a'", "'b'"}
LiteralLexemes == {"null", "true", "false"}
GoodLexemes    == Punctuation \cup NumberLexemes \cup StringLexemes \cup LiteralLexemes
BadLexemes     == {"extra", "'abc"}

IsNoSpace(p) == p \notin Space

(* The source without its whitespace lexemes. *)
Strip(ps) == SelectSeq(ps, IsNoSpace)

(* Every token sequence of at most MaxTokens tokens over the punctuation   *)
(* and a string, which can be a key and a value.                           *)
MaxTokens == 5

TokenLexemes == Punctuation \cup {"'a'"}

TokenSources == SeqsUpTo(TokenLexemes, MaxTokens)

(* Values of the spec and of the tests (lib.rs, lines 70-166). *)
Nested == <<"{", "'a'", ":", "[", "1", ",", "{", "'b'", ":", "2", "}", "]", "}">>

ValidSamples ==
    { <<"null">>, <<"1">>, <<"'a'">>, <<"[", "]">>, <<"{", "}">>,
      <<"[", "1", "]">>,
      <<"[", "1", ",", "2", ",", "3", "]">>,
      <<"[", "1", ",", "'a'", ",", "true", ",", "null", "]">>,
      <<"{", "'a'", ":", "1", "}">>,
      <<"{", "'a'", ":", "'b'", ",", "'b'", ":", "[", "[", "]", "]", "}">>,
      Nested }

(* A sample cut short: every proper prefix that is not empty. *)
Truncated == UNION {{SubSeq(v, 1, k) : k \in 1..(Len(v) - 1)} : v \in ValidSamples}

(* A sample with a comma put right before one of its closing brackets. *)
Closers(v) == {i \in 1..Len(v) : v[i] \in {"]", "}"}}

TrailingCommas == UNION {{InsertAt(v, i, ",") : i \in Closers(v)} : v \in ValidSamples}

(* A sample followed by further content, with or without a space between. *)
Rests ==
    {<<t>> : t \in GoodLexemes \cup BadLexemes}
    \cup {<<t, u>> : t \in {"]", "null", "'b'"}, u \in {",", "extra", "'abc"}}

(* Written right after a number, p would be read as part of the number. *)
ExtendsNumber(p) == is_digit(Lexeme(p)[1]) \/ Lexeme(p)[1] \in {Ch.dot, Ch.e, Ch.E}

Glued(v, rest) == v[Len(v)] \in NumberLexemes /\ ExtendsNumber(rest[1])

TrailingContent ==
    {v \o <<"SP">> \o rest : v \in ValidSamples, rest \in Rests}
    \cup UNION {{v \o rest : rest \in {r \in Rests : r[1] \in GoodLexemes /\ ~Glued(v, r)}} :
                    v \in ValidSamples}

(* Whitespace put into a source: one lexeme of it at one place, or the     *)
(* same lexeme at every place.                                             *)
Malformed ==
    { <<"1", "2">>, <<"[", "1", "2", "]">>, <<"1", "-2">>, <<"[", "1", "-2", "]">>,
      <<"null", "true">>, <<"{", "'a'", "'b'", "}">>, <<"[", "1", ",", "]">>,
      <<"{", "'a'", ":", "1", ",", "}">>, <<"[", "1", ",">>, <<"'a'", ":">> }

RECURSIVE Padded(_, _)
Padded(ps, w) == IF ps = <<>> THEN <<w>> ELSE <<w, Head(ps)>> \o Padded(Tail(ps), w)

SpacedOut(b) ==
    {InsertAt(b, i, w) : i \in 1..(Len(b) + 1), w \in Space}
    \cup {Padded(b, w) : w \in Space}

SpacedSources == UNION {SpacedOut(b) : b \in ValidSamples \cup Malformed}

(* The literals, with whitespace around them. *)
MaxPad == 1

LiteralSources ==
    {pre \o <<lit>> \o post :
        pre \in SeqsUpTo(Space, MaxPad), lit \in LiteralLexemes,
        post \in SeqsUpTo(Space, MaxPad)}

(* Objects of at most MaxMembers members, keys repeated or not. *)
MaxMembers == 3

MemberKeys   == {"'a'", "'b'"}
MemberValues == {"1", "2", "null"}

RECURSIVE ObjectBody(_)
ObjectBody(ms) ==
    IF ms = <<>> THEN <<>>
    ELSE IF Len(ms) = 1 THEN <<ms[1][1], ":", ms[1][2]>>
    ELSE <<ms[1][1], ":", ms[1][2], ",">> \o ObjectBody(Tail(ms))

ObjectSrc(ms) == <<"{">> \o ObjectBody(ms) \o <<"}">>

ObjectSources == {ObjectSrc(ms) : ms \in SeqsUpTo(MemberKeys \X MemberValues, MaxMembers)}

(* Arrays of at most MaxElements elements of every kind of value. *)
MaxElements == 3

Elements == {"1", "'a'", "true", "false", "null", "[]", "{}"}

RECURSIVE ArrayBody(_)
ArrayBody(es) ==
    IF es = <<>> THEN <<>>
    ELSE IF Len(es) = 1 THEN <<es[1]>>
    ELSE <<es[1], ",">> \o ArrayBody(Tail(es))

ArraySrc(es) == <<"[">> \o ArrayBody(es) \o <<"]">>

ArraySources == {ArraySrc(es) : es \in SeqsUpTo(Elements, MaxElements)}

(* String literals of at most MaxPieces plain characters and escapes. *)
MaxPieces == 2

PlainPieces  == {"a", "SP", "e-acute", ":", "{"}
SimpleEscapes == {"\\\"", "\\\\", "\\/", "\\b", "\\f", "\\n", "\\r", "\\t"}
UnicodeEscapes == {"\\u0041", "\\u00e9", "\\u20AC", "\\uD7FF", "\\uE000", "\\uffff"}
StringPieces == PlainPieces \cup SimpleEscapes \cup UnicodeEscapes

StringSources ==
    {<<"QUOTE">> \o ps \o <<"QUOTE">> : ps \in SeqsUpTo(StringPieces, MaxPieces)}

(* Numbers: every text of the number grammar over a few runs of digits,    *)
(* alone and as the element of an array.                                   *)
IntRuns  == {"0", "1", "12", "123", "10", "007"}
FracRuns == {"0", "5", "23", "456", "50"}
ExpRuns  == {"0", "4", "10", "02"}

Fractions == {<<>>} \cup {<<".", f>> : f \in FracRuns}
Exponents ==
    {<<>>} \cup {<<m, r>> : m \in {"e", "E"}, r \in ExpRuns}
           \cup {<<m, g, r>> : m \in {"e", "E"}, g \in {"+", "-"}, r \in ExpRuns}

NumberTexts ==
    {sign \o <<i>> \o frac \o exp :
        sign \in {<<>>, <<"-">>}, i \in IntRuns, frac \in Fractions, exp \in Exponents}

NumberSources == NumberTexts \cup {<<"[">> \o n \o <<"]">> : n \in NumberTexts}

(* Objects with something else than a colon after a key: the beginning of  *)
(* the object up to the key, the token written for the colon, and the rest *)
(* of the input, if there is one.                                          *)
BeforeKey ==
    { <<"{">>, <<"[", "{">>, <<"{", "'a'", ":", "1", ",">>,
      <<"{", "'b'", ":", "{">> }

AfterError == { <<>>, <<"SP", "1", "}">>, <<"SP", ":", "'b'", "}">> }

NoColonSources ==
    {pre \o <<k, t>> \o post :
        pre \in BeforeKey, k \in MemberKeys, t \in GoodLexemes \ {":"},
        post \in AfterError}

KeyAtEndSources ==
    {pre \o <<k>> \o w : pre \in BeforeKey, k \in MemberKeys, w \in SeqsUpTo(Space, MaxPad)}

(* The empty containers, with or without whitespace between the brackets,  *)
(* alone, as an element and as a member.                                   *)
EmptyContainers ==
    {<<"{">> \o w \o <<"}">> : w \in SeqsUpTo(Space, MaxPad)}
    \cup {<<"[">> \o w \o <<"]">> : w \in SeqsUpTo(Space, MaxPad)}

EmptySources ==
    EmptyContainers
    \cup {<<"[">> \o e \o <<"]">> : e \in EmptyContainers}
    \cup {<<"[", "1", ",">> \o e \o <<"]">> : e \in EmptyContainers}
    \cup {<<"{", "'a'", ":">> \o e \o <<"}">> : e \in EmptyContainers}

(* Strings the input ends in: after plain characters and escapes, right    *)
(* after a backslash, and inside a \u escape after none to three digits.   *)
BeforeString == { <<>>, <<"[">>, <<"{", "'a'", ":">> }

OpenPieces ==
    { <<>>, <<"a">>, <<"\\\"">>, <<"\\\\">>, <<"\\u0041">>, <<"a", "\\n">>, <<"SP", "]">>,
      <<"e-acute", "\\\"">> }

HexStarts == { <<>>, <<"1">>, <<"12">>, <<"123">> }

OpenPlain == {pre \o <<"QUOTE">> \o ps : pre \in BeforeString, ps \in OpenPieces}

OpenBackslash == {o \o <<"BACKSLASH">> : o \in OpenPlain}

OpenUnicode(d) == {o \o <<"\\u">> \o d : o \in OpenPlain}

OpenStrings == OpenPlain \cup OpenBackslash \cup UNION {OpenUnicode(d) : d \in HexStarts}

(* Strings with a \u escape whose four characters are no four hexadecimal  *)
(* digits, begin with a sign, or name a surrogate; and strings the input   *)
(* ends in before the fourth character.                                    *)
NonHexFours ==
    { <<"12", "x", "1">>, <<"x", "123">>, <<"123", "x">>, <<"12", "SP", "1">>,
      <<"-", "007">>, <<".", "123">>, <<"123", "QUOTE">>, <<"1", "QUOTE", "12">> }

SignedFours == { <<"+", "0", "4", "1">>, <<"+", "123">> }

SurrogateFours == { <<"D800">>, <<"DFFF">>, <<"dbff">>, <<"D83D">> }

BadFours == NonHexFours \cup SignedFours \cup SurrogateFours

AfterFour == { <<>>, <<"QUOTE">>, <<"\\uDE00", "QUOTE">>, <<"a", "QUOTE", "]">> }

BadUnicode(four) == {o \o <<"\\u">> \o four \o post : o \in OpenPlain, post \in AfterFour}

CutFours == HexStarts \cup { <<"12", "QUOTE">>, <<"QUOTE">> }

UnicodeSources ==
    UNION {BadUnicode(four) : four \in BadFours} \cup UNION {OpenUnicode(d) : d \in CutFours}

(* Inputs with an error followed by further errors. *)
FirstErrors ==
    { <<"[", ",">>, <<"{", "1">>, <<"{", "'a'", "'b'">>, <<"[", "1", ",", "]">>,
      <<"[", "1", "SP", "2">>, <<"extra">>, <<"[", "nul", "x">>,
      <<"QUOTE", "BACKSLASH", "x">>, <<"1", ".", "x">>, <<"{", "}", "SP", "}">>,
      <<"QUOTE", "\\u", "D800">> }

FurtherErrors ==
    { <<"SP", "extra">>, <<"SP", "'abc">>, <<"SP", "]", ",">>, <<"SP", "1", ".">>,
      <<",", ",">> }

ErrorThen(first) == {first \o more : more \in FurtherErrors}

ErrorSources == UNION {ErrorThen(first) : first \in FirstErrors}

(* Numbers with a run of digits missing: the integer part, the fraction    *)
(* after the point, or the exponent after e or E and its sign; alone and   *)
(* in an array, followed by something that is no digit.                    *)
Signs     == { <<>>, <<"-">> }
SomeInts  == { "0", "1", "12" }
SomeFracs == { <<>>, <<".", "5">>, <<".", "23">> }

NoIntDigits  == { <<"-">> }
NoFracDigits == {g \o <<i, ".">> : g \in Signs, i \in SomeInts}
NoExpDigits ==
    {g \o <<i>> \o f \o <<m>> \o h :
        g \in Signs, i \in SomeInts, f \in SomeFracs, m \in {"e", "E"},
        h \in {<<>>, <<"+">>, <<"-">>}}

AfterRun ==
    { <<>>, <<"x">>, <<"SP", "1">>, <<"]">>, <<",", "1">>, <<".", "5">>, <<"e", "5">> }

DigitlessSources ==
    {pre \o n \o post :
        pre \in {<<>>, <<"[">>},
        n \in NoIntDigits \cup NoFracDigits \cup NoExpDigits,
        post \in AfterRun}

(* Literals gone astray: a beginning of null, true or false, alone and in  *)
(* an array, that the input ends after or that a wrong character follows;  *)
(* and complete literals with characters right after them.                 *)
LiteralStarts == {"n", "nu", "nul", "t", "tr", "tru", "f", "fa", "fal", "fals"}

StrayLexemes == {"x", "l", "a", "e", "SP", "]", "1", "QUOTE", "N"}

(* The character the literal goes on with after the beginning p. *)
GoesOnWith(p) ==
    CASE p = "n"    -> Ch.u
      [] p = "nu"   -> Ch.l
      [] p = "nul"  -> Ch.l
      [] p = "t"    -> Ch.r
      [] p = "tr"   -> Ch.u
      [] p = "tru"  -> Ch.e
      [] p = "f"    -> Ch.a
      [] p = "fa"   -> Ch.l
      [] p = "fal"  -> Ch.s
      [] p = "fals" -> Ch.e

CutLiterals == {pre \o <<p>> : pre \in {<<>>, <<"[">>}, p \in LiteralStarts}

WrongLiterals ==
    {o \o <<c>> \o post :
        o \in CutLiterals,
        c \in StrayLexemes,
        post \in {<<>>, <<"l">>, <<"SP", "1">>}}
    \ UNION {{o \o <<c>> \o post :
                 c \in {d \in StrayLexemes : Lexeme(d)[1] = GoesOnWith(o[Len(o)])},
                 post \in {<<>>, <<"l">>, <<"SP", "1">>}} : o \in CutLiterals}

AfterLiteral ==
    {<<lit, c>> : lit \in LiteralLexemes, c \in {"x", "l", "null", "false", "1", "]"}}

(* Inputs with a token that starts no value, or with nothing, where a      *)
(* value is expected: at the top, as an element and as the value of a      *)
(* member.  A closing bracket right after the opening one or after a comma *)
(* is left out: parse_value is not called for it.                          *)
BeforeValue ==
    { <<>>, <<"[">>, <<"[", "1", ",">>, <<"{", "'a'", ":">>, <<"[", "[">>,
      <<"{", "'a'", ":", "[">> }

NoValueLexemes == {"}", "]", ":", ","}

StartsNoValue(pre, t) ==
    /\ t \in NoValueLexemes
    /\ ~(pre # <<>> /\ pre[Len(pre)] \in {"[", ","} /\ t = "]")

NoValueSources ==
    UNION {{pre \o <<t>> \o post :
               t \in {u \in NoValueLexemes : StartsNoValue(pre, u)},
               post \in {<<>>, <<"1", "]">>, <<"SP", "extra">>}} : pre \in BeforeValue}

EndsBeforeValue ==
    {pre \o w : pre \in BeforeValue, w \in SeqsUpTo(Space, MaxPad)}
    \cup SeqsUpTo(Space, MaxPad + 1)

(* Objects with something else than a string where a key belongs: after   *)
(* the opening brace and after a comma.  The closing brace is left out: it *)
(* ends an empty object or is a trailing comma.                            *)
KeyPlaces ==
    BeforeKey \cup { <<"{", "'a'", ":", "1", ",", "'b'", ":", "2", ",">> }

NoKeyLexemes == (GoodLexemes \ StringLexemes) \ {"}"}

NoKeySources ==
    {pre \o <<t>> \o post :
        pre \in KeyPlaces, t \in NoKeyLexemes, post \in {<<>>, <<"SP", ":", "1", "}">>}}

EndsBeforeKey == {pre \o w : pre \in KeyPlaces, w \in SeqsUpTo(Space, MaxPad)}

(* Strings with a backslash before a character that begins no escape,      *)
(* followed by anything.                                                   *)
NoEscapeLexemes == {"a", "x", "l", "e", "SP", "1", "0", "U", "N", "e-acute", ":", "]", "E"}

AfterEscape == { <<>>, <<"QUOTE">>, <<"a", "QUOTE", "]">>, <<"BACKSLASH", "x">>, <<"\\n", "QUOTE">> }

NoEscapeSources ==
    {o \o <<"BACKSLASH", c>> \o post :
        o \in OpenPlain, c \in NoEscapeLexemes, post \in AfterEscape}

Sources ==
    TokenSources \cup ValidSamples \cup Truncated \cup TrailingCommas
    \cup TrailingContent \cup SpacedSources \cup LiteralSources
    \cup ObjectSources \cup ArraySources \cup StringSources \cup NumberSources
    \cup NoColonSources \cup KeyAtEndSources
    \cup EmptySources \cup OpenStrings \cup UnicodeSources \cup ErrorSources
    \cup DigitlessSources \cup CutLiterals \cup WrongLiterals \cup AfterLiteral
    \cup NoValueSources \cup EndsBeforeValue
    \cup NoKeySources \cup EndsBeforeKey
    \cup NoEscapeSources

-----------------------------------------------------------------------------
(* The state machine. *)

State ==
    [ input |-> input, pos |-> pos, current_token |-> current_token,
      stack |-> stack, value |-> value, pc |-> pc, result |-> result,
      calls |-> calls, consumed |-> consumed ]

Becomes(s) ==
    /\ input' = s.input
    /\ pos' = s.pos
    /\ current_token' = s.current_token
    /\ stack' = s.stack
    /\ value' = s.value
    /\ pc' = s.pc
    /\ result' = s.result
    /\ calls' = s.calls
    /\ consumed' = s.consumed
    /\ UNCHANGED src

Init ==
    /\ src \in Sources
    /\ input = Text(src)
    /\ pos = 0
    /\ current_token = NoToken
    /\ stack = <<>>
    /\ value = NoValue
    /\ pc = "new"
    /\ result = Pending
    /\ calls = <<>>
    /\ consumed = 0

ParserNew        == pc = "new" /\ Becomes(Parser_new(State))
ParseValue       == pc = "parse_value" /\ Becomes(parse_value(State))
ParseObjectOpen  == pc = "parse_object" /\ Becomes(parse_object_open(State))
ParseObjectKey   == pc = "object_key" /\ Becomes(parse_object_key(State))
ParseObjectColon == pc = "object_colon" /\ Becomes(parse_object_colon(State))
ParseObjectSep   == pc = "object_sep" /\ Becomes(parse_object_sep(State))
ParseArrayOpen   == pc = "parse_array" /\ Becomes(parse_array_open(State))
ParseArraySep    == pc = "array_sep" /\ Becomes(parse_array_sep(State))
ParseEnd         == pc = "parse_end" /\ Becomes(parse_end(State))

Next ==
    \/ ParserNew
    \/ ParseValue
    \/ ParseObjectOpen
    \/ ParseObjectKey
    \/ ParseObjectColon
    \/ ParseObjectSep
    \/ ParseArrayOpen
    \/ ParseArraySep
    \/ ParseEnd

Spec == Init /\ [][Next]_vars

Done == pc = "done"

-----------------------------------------------------------------------------
(* What the texts denote, written down from JSON and not from the parser.  *)

(* The value a lexeme that is a value denotes. *)
LexemeValue(p) ==
    CASE p = "null"  -> JsonNull
      [] p = "true"  -> JsonBoolean(TRUE)
      [] p = "false" -> JsonBoolean(FALSE)
      [] p = "1"     -> JsonNumber([neg |-> FALSE, mant |-> 1, exp |-> 0])
      [] p = "2"     -> JsonNumber([neg |-> FALSE, mant |-> 2, exp |-> 0])
      [] p = "3"     -> JsonNumber([neg |-> FALSE, mant |-> 3, exp |-> 0])
      [] p = "-2"    -> JsonNumber([neg |-> TRUE, mant |-> 2, exp |-> 0])
      [] p = "'a'"   -> JsonString(<<97>>)
      [] p = "'b'"   -> JsonString(<<98>>)
      [] p = "[]"    -> JsonArray(<<>>)
      [] p = "{}"    -> JsonObject(<<>>)

(* The token a lexeme is. *)
TokenOf(p) ==
    CASE p = "{"     -> TokPunct("LeftBrace")
      [] p = "}"     -> TokPunct("RightBrace")
      [] p = "["     -> TokPunct("LeftBracket")
      [] p = "]"     -> TokPunct("RightBracket")
      [] p = ":"     -> TokPunct("Colon")
      [] p = ","     -> TokPunct("Comma")
      [] p = "null"  -> TokNull
      [] p = "true"  -> TokBoolean(TRUE)
      [] p = "false" -> TokBoolean(FALSE)
      [] p = "1"     -> TokNumber([neg |-> FALSE, mant |-> 1, exp |-> 0])
      [] p = "2"     -> TokNumber([neg |-> FALSE, mant |-> 2, exp |-> 0])
      [] p = "3"     -> TokNumber([neg |-> FALSE, mant |-> 3, exp |-> 0])
      [] p = "-2"    -> TokNumber([neg |-> TRUE, mant |-> 2, exp |-> 0])
      [] p = "'a'"   -> TokString(<<97>>)
      [] p = "'b'"   -> TokString(<<98>>)

(* The text of a key. *)
KeyText(p) == IF p = "'a'" THEN <<97>> ELSE <<98>>

(* The entries of an object written with the members ms, pairs of a key    *)
(* and a value: one entry for every key, holding the value of its last     *)
(* member.                                                                 *)
LastOf(ms, k) == CHOOSE j \in 1..Len(ms) : ms[j][1] = k /\ \A i \in (j + 1)..Len(ms) : ms[i][1] # k

Entries(ms) == [k \in {ms[j][1] : j \in 1..Len(ms)} |-> ms[LastOf(ms, k)][2]]

(* The values of the grammar written with at most MaxTokens of             *)
(* TokenLexemes, each with the tree it denotes.  A value of depth d + 1 is *)
(* an array or an object of values of depth at most d.                     *)
Written(ps, tree) == [src |-> ps, tree |-> tree]

RECURSIVE ElementSrc(_)
ElementSrc(es) ==
    IF es = <<>> THEN <<>>
    ELSE IF Len(es) = 1 THEN es[1].src
    ELSE es[1].src \o <<",">> \o ElementSrc(Tail(es))

ArrayOf(es) ==
    Written(<<"[">> \o ElementSrc(es) \o <<"]">>,
            JsonArray([j \in 1..Len(es) |-> es[j].tree]))

RECURSIVE MemberSrc(_)
MemberSrc(ms) ==
    IF ms = <<>> THEN <<>>
    ELSE IF Len(ms) = 1 THEN <<"'a'", ":">> \o ms[1].src
    ELSE <<"'a'", ":">> \o ms[1].src \o <<",">> \o MemberSrc(Tail(ms))

ObjectOf(ms) ==
    Written(<<"{">> \o MemberSrc(ms) \o <<"}">>,
            JsonObject(Entries([j \in 1..Len(ms) |-> <<KeyText("'a'"), ms[j].tree>>])))

Fits(w) == Len(w.src) <= MaxTokens

RECURSIVE ValuesOfDepth(_)
ValuesOfDepth(d) ==
    IF d = 0 THEN {Written(<<"'a'">>, JsonString(<<97>>))}
    ELSE LET sub == ValuesOfDepth(d - 1)
         IN  sub
             \cup {w \in {ArrayOf(es) : es \in SeqsUpTo(sub, (MaxTokens - 1) \div 2)} : Fits(w)}
             \cup {w \in {ObjectOf(ms) : ms \in SeqsUpTo(sub, (MaxTokens - 1) \div 4)} : Fits(w)}

ValidSet == ValuesOfDepth(MaxTokens \div 2)

ValidTokenSources == {w.src : w \in ValidSet}

IsPrefix(v, ps) == Len(v) <= Len(ps) /\ SubSeq(ps, 1, Len(v)) = v

-----------------------------------------------------------------------------
(* Trailing content after a complete value.                                *)

ExpectedEnd == Failed(UnexpectedToken("Expected end of input", NoToken))

(* The error of the lexer on a lexeme that is no token. *)
LexicalError(p) == IF p = "extra" THEN UnexpectedChar(Ch.e) ELSE UnexpectedEof

(* C1, as stated: every input made of one complete value followed by       *)
(* further content that is not whitespace fails with the unexpected-token  *)
(* error "Expected end of input".                                          *)
C1_TrailingContentIsExpectedEnd ==
    Done /\ src \in TrailingContent => result = ExpectedEnd

(* C1, amended: when the content after the complete value begins with a    *)
(* well-formed token, parse_json fails with the unexpected-token error     *)
(* "Expected end of input"; when it begins with text that is no token, it  *)
(* fails with the error of the lexer on that text.                         *)
C1_TrailingTokenIsExpectedEnd ==
    Done /\ src \in TrailingContent =>
        \A v \in ValidSamples :
            IsPrefix(v, Strip(src)) =>
                result = IF Strip(src)[Len(v) + 1] \in GoodLexemes
                         THEN ExpectedEnd
                         ELSE Failed(LexicalError(Strip(src)[Len(v) + 1]))

C1_Witness ==
    /\ Done
    /\ src = <<"[", "1", "]", "SP", "]", "extra">>
    /\ result = ExpectedEnd

-----------------------------------------------------------------------------
(* Trailing commas.                                                        *)

(* The valid sources with a comma put right before a closing bracket. *)
TrailingCommaSources ==
    TrailingCommas
    \cup UNION {{InsertAt(v, i, ",") : i \in Closers(v)} : v \in ValidTokenSources}

(* C2: an array or object in which a comma is immediately followed by the  *)
(* closing bracket of its container, at any depth, fails with an           *)
(* unexpected-token error and gives no value.                              *)
C2_TrailingCommaRejected ==
    Done /\ Strip(src) \in TrailingCommaSources =>
        /\ result.kind = "Err"
        /\ result.error.kind = "UnexpectedToken"
        /\ result.value = NoValue

C2_Witness ==
    /\ Done
    /\ src = <<"[", "1", ",", "2", ",", "3", ",", "]">>
    /\ result = Failed(UnexpectedToken("Trailing comma in array", NoToken))

-----------------------------------------------------------------------------
(* Unterminated structures.                                                *)

(* The valid sources cut short while a container is open. *)
Unterminated ==
    Truncated
    \cup UNION {{SubSeq(v, 1, k) : k \in 1..(Len(v) - 1)} : v \in ValidTokenSources}

(* C3: an input of well-formed tokens that ends while an object or an      *)
(* array is open fails with UnexpectedEof.                                 *)
C3_UnterminatedIsEof ==
    Done /\ Strip(src) \in Unterminated => result = Failed(UnexpectedEof)

C3_Witness ==
    /\ Done
    /\ src = <<"{", "'a'", ":", "[", "1", ",", "{", "'b'", ":">>
    /\ result = Failed(UnexpectedEof)

-----------------------------------------------------------------------------
(* Repeated keys.                                                          *)

(* The number of members of an object source, its j-th key and value. *)
Members(ps)      == (Len(ps) - 1) \div 4
MemberKey(ps, j) == KeyText(ps[4 * j - 2])
MemberVal(ps, j) == LexemeValue(ps[4 * j])

(* C4: the Object parsed from members (k1,v1)...(kn,vn) has one entry for  *)
(* every distinct key, and the entry of a key is the value of its last     *)
(* member.                                                                 *)
C4_LastKeyWins ==
    Done /\ src \in ObjectSources =>
        /\ result = Ok(JsonObject(result.value.fields))
        /\ DOMAIN result.value.fields = {MemberKey(src, j) : j \in 1..Members(src)}
        /\ \A j \in 1..Members(src) :
              (\A i \in (j + 1)..Members(src) : MemberKey(src, i) # MemberKey(src, j))
                  => result.value.fields[MemberKey(src, j)] = MemberVal(src, j)

C4_Witness ==
    /\ Done
    /\ src = <<"{", "'a'", ":", "1", ",", "'b'", ":", "null", ",", "'a'", ":", "2", "}">>
    /\ result.kind = "Ok"
    /\ result.value.fields[<<97>>] = LexemeValue("2")

-----------------------------------------------------------------------------
(* Whitespace between tokens.                                              *)

(* The sources whose whitespace lexemes all stand between tokens. *)
WhitespaceSources == SpacedSources \cup LiteralSources \cup TrailingContent

(* Without the whitespace between them, two lexemes of ps would be read as *)
(* one number.                                                             *)
NumberAdjacent(ps) ==
    \E i \in 1..(Len(ps) - 1) : ps[i] \in NumberLexemes /\ ExtendsNumber(ps[i + 1])

(* C5, as stated: removing the whitespace between the tokens of any input  *)
(* leaves the result of parse_json unchanged.                              *)
C5_WhitespaceInsignificant ==
    Done /\ src \in WhitespaceSources => result = parse_json(Text(Strip(src)))

(* C5, amended: removing the whitespace between the tokens of an input     *)
(* leaves the result of parse_json unchanged, unless the whitespace stands *)
(* between a number and content that begins with a digit, `.`, `e` or `E`, *)
(* which without it is read as part of the number.                         *)
C5_WhitespaceBetweenTokens ==
    Done /\ src \in WhitespaceSources /\ ~NumberAdjacent(Strip(src)) =>
        result = parse_json(Text(Strip(src)))

C5_Witness ==
    /\ Done
    /\ src = Padded(Nested, "NL")
    /\ result.kind = "Ok"
    /\ result = parse_json(Text(Nested))

-----------------------------------------------------------------------------
(* One value for the whole input.                                          *)

Num(m) == JsonNumber([neg |-> FALSE, mant |-> m, exp |-> 0])

(* The tree of {"a":[1,{"b":2}]}. *)
NestedTree ==
    JsonObject([k \in {<<97>>} |->
        JsonArray(<<Num(1), JsonObject([j \in {<<98>>} |-> Num(2)])>>)])

(* The samples that are no value: cut short, with a trailing comma or with *)
(* content after the value.                                                *)
InvalidSamples == Truncated \cup TrailingCommas \cup TrailingContent

(* C6: parse_json succeeds on a sequence of tokens exactly when the        *)
(* sequence is one value of the grammar, and the tree it returns then      *)
(* mirrors the nesting of the text.                                        *)
C6_OneValueOrError ==
    /\ Done /\ src \in TokenSources =>
          IF src \in ValidTokenSources
          THEN \E w \in ValidSet : w.src = src /\ result = Ok(w.tree)
          ELSE result.kind = "Err" /\ result.value = NoValue
    /\ Done /\ Strip(src) \in ValidSamples => result.kind = "Ok"
    /\ Done /\ src \in InvalidSamples => result.kind = "Err"
    /\ Done /\ Strip(src) = Nested => result = Ok(NestedTree)

C6_Witness ==
    /\ Done
    /\ src = Nested
    /\ result.kind = "Ok"
    /\ Len(result.value.fields[<<97>>].items) = 2
    /\ result.value.fields[<<97>>].items[2].fields[<<98>>] = Num(2)

-----------------------------------------------------------------------------
(* Arrays.                                                                 *)

(* The number of elements of an array source; its j-th is ps[2 * j]. *)
ElementCount(ps) == (Len(ps) - 1) \div 2

(* C7: the Array parsed from n comma-separated values has length n and its *)
(* i-th element is the value of the i-th of them, whatever their kinds.    *)
C7_ArrayInSourceOrder ==
    Done /\ src \in ArraySources =>
        result = Ok(JsonArray([j \in 1..ElementCount(src) |-> LexemeValue(src[2 * j])]))

C7_Witness ==
    /\ Done
    /\ src = <<"[", "1", ",", "'a'", ",", "{}", "]">>
    /\ result.kind = "Ok"
    /\ Len(result.value.items) = 3
    /\ result.value.items[3] = JsonObject(<<>>)

-----------------------------------------------------------------------------
(* Literals.                                                               *)

(* C8: null parses to Null, true to Boolean(true) and false to             *)
(* Boolean(false), with or without whitespace around the literal.          *)
C8_LiteralVariant ==
    Done /\ src \in LiteralSources =>
        result = CASE Strip(src) = <<"null">>  -> Ok(JsonNull)
                   [] Strip(src) = <<"true">>  -> Ok(JsonBoolean(TRUE))
                   [] Strip(src) = <<"false">> -> Ok(JsonBoolean(FALSE))

C8_Witness ==
    /\ Done
    /\ src = <<"NL", "false", "TAB">>
    /\ result = Ok(JsonBoolean(FALSE))

-----------------------------------------------------------------------------
(* String escapes.                                                         *)

(* The character a piece of a string literal denotes. *)
Denotes(p) ==
    CASE p = "a"       -> 97
      [] p = "SP"      -> 32
      [] p = "e-acute" -> 233
      [] p = ":"       -> 58
      [] p = "{"       -> 123
      [] p = "\\\""    -> 34
      [] p = "\\\\"    -> 92
      [] p = "\\/"     -> 47
      [] p = "\\b"     -> 8
      [] p = "\\f"     -> 12
      [] p = "\\n"     -> 10
      [] p = "\\r"     -> 13
      [] p = "\\t"     -> 9
      [] p = "\\u0041" -> 65
      [] p = "\\u00e9" -> 233
      [] p = "\\u20AC" -> 8364
      [] p = "\\uD7FF" -> 55295
      [] p = "\\uE000" -> 57344
      [] p = "\\uffff" -> 65535

(* C9: the String of a literal of plain characters, simple escapes and     *)
(* \uXXXX escapes of code points that are no surrogates holds, in order,   *)
(* every plain character and the one character every escape denotes.       *)
C9_EscapesDecode ==
    Done /\ src \in StringSources =>
        result = Ok(JsonString([i \in 1..(Len(src) - 2) |-> Denotes(src[i + 1])]))

C9_Witness ==
    /\ Done
    /\ src = <<"QUOTE", "\\n", "\\u20AC", "QUOTE">>
    /\ result = Ok(JsonString(<<10, 8364>>))

-----------------------------------------------------------------------------
(* Numbers.                                                                *)

(* The natural a run of digits of the number sources denotes. *)
RunValue(p) ==
    CASE p = "0"   -> 0
      [] p = "1"   -> 1
      [] p = "4"   -> 4
      [] p = "5"   -> 5
      [] p = "10"  -> 10
      [] p = "12"  -> 12
      [] p = "23"  -> 23
      [] p = "50"  -> 50
      [] p = "02"  -> 2
      [] p = "007" -> 7
      [] p = "123" -> 123
      [] p = "456" -> 456

RECURSIVE Pow10(_)
Pow10(n) == IF n = 0 THEN 1 ELSE 10 * Pow10(n - 1)

(* The parts of a number source: an optional "-", the integer run, an      *)
(* optional "." and fraction run, an optional "e" or "E" with an optional  *)
(* sign and the exponent run, which is last.                               *)
IsNegative(ps)  == ps[1] = "-"
IntIndex(ps)    == IF IsNegative(ps) THEN 2 ELSE 1
HasFraction(ps) == Len(ps) > IntIndex(ps) /\ ps[IntIndex(ps) + 1] = "."
FracDigits(ps)  == IF HasFraction(ps) THEN Len(Lexeme(ps[IntIndex(ps) + 2])) ELSE 0
FracValue(ps)   == IF HasFraction(ps) THEN RunValue(ps[IntIndex(ps) + 2]) ELSE 0
ExpIndex(ps)    == IF HasFraction(ps) THEN IntIndex(ps) + 3 ELSE IntIndex(ps) + 1
HasExponent(ps) == Len(ps) >= ExpIndex(ps)
ExpValue(ps) ==
    IF ~HasExponent(ps) THEN 0
    ELSE IF ps[ExpIndex(ps) + 1] = "-" THEN 0 - RunValue(ps[Len(ps)])
    ELSE RunValue(ps[Len(ps)])

(* The decimal a number source denotes. *)
ExpectedNumber(ps) ==
    Normalize(IsNegative(ps),
              RunValue(ps[IntIndex(ps)]) * Pow10(FracDigits(ps)) + FracValue(ps),
              ExpValue(ps) - FracDigits(ps))

(* The number source between the brackets of an array of one number. *)
Inner(ps) == SubSeq(ps, 2, Len(ps) - 1)

(* C10: a text of the number grammar is read whole as one Number token,    *)
(* which ends where the text ends or at the bracket that follows it, and   *)
(* parse_json gives the Number the text denotes as a decimal.              *)
C10_NumberGrammar ==
    /\ pc = "parse_value" /\ stack = <<>> /\ src \in NumberTexts =>
          current_token = TokNumber(ExpectedNumber(src)) /\ pos = Len(input)
    /\ Done /\ src \in NumberTexts => result = Ok(JsonNumber(ExpectedNumber(src)))
    /\ Done /\ src \in NumberSources \ NumberTexts =>
          result = Ok(JsonArray(<<JsonNumber(ExpectedNumber(Inner(src)))>>))
    /\ Done /\ src = <<"1", ".", "23", "e", "4">> =>
          result = Ok(JsonNumber([neg |-> FALSE, mant |-> 123, exp |-> 2]))
    /\ Done /\ src = <<"-", "123", ".", "456">> =>
          result = Ok(JsonNumber([neg |-> TRUE, mant |-> 123456, exp |-> 0 - 3]))
    /\ Done /\ src = <<"123">> =>
          result = Ok(JsonNumber([neg |-> FALSE, mant |-> 123, exp |-> 0]))

C10_Witness ==
    /\ Done
    /\ src = <<"-", "12", ".", "50", "E", "-", "02">>
    /\ result = Ok(JsonNumber([neg |-> TRUE, mant |-> 125, exp |-> 0 - 3]))

-----------------------------------------------------------------------------
(* A key without its colon.                                                *)

(* The longest beginning of ps among the set pres. *)
Beginning(pres, ps) ==
    CHOOSE p \in pres :
        IsPrefix(p, ps) /\ \A q \in pres : IsPrefix(q, ps) => Len(q) <= Len(p)

(* The lexeme written where the colon belongs. *)
ForColon(ps) == ps[Len(Beginning(BeforeKey, ps)) + 2]

(* C11: an object in which a key is followed by a token that is no colon   *)
(* fails with the unexpected-token error that names the colon expected and *)
(* the token found; when the input ends after the key it fails with        *)
(* UnexpectedEof.                                                          *)
C11_MissingColon ==
    /\ Done /\ src \in NoColonSources =>
          result = Failed(UnexpectedToken("Expected ':', got {:?}", TokenOf(ForColon(src))))
    /\ Done /\ src \in KeyAtEndSources => result = Failed(UnexpectedEof)

C11_Witness ==
    /\ Done
    /\ src = <<"{", "'a'", "'b'", "SP", "1", "}">>
    /\ result = Failed(UnexpectedToken("Expected ':', got {:?}", TokString(<<98>>)))

-----------------------------------------------------------------------------
(* Empty containers.                                                       *)

NoEntries == JsonObject(<<>>)
NoItems   == JsonArray(<<>>)

(* C12: {} parses to an Object without entries and [] to an Array of       *)
(* length 0, alone, as an element and as a member, with or without         *)
(* whitespace between the brackets.                                        *)
C12_EmptyContainers ==
    /\ Done /\ Strip(src) = <<"{", "}">> =>
          result = Ok(NoEntries) /\ DOMAIN result.value.fields = {}
    /\ Done /\ Strip(src) = <<"[", "]">> =>
          result = Ok(NoItems) /\ Len(result.value.items) = 0
    /\ Done /\ Strip(src) = <<"[", "{", "}", "]">> => result = Ok(JsonArray(<<NoEntries>>))
    /\ Done /\ Strip(src) = <<"[", "[", "]", "]">> => result = Ok(JsonArray(<<NoItems>>))
    /\ Done /\ Strip(src) = <<"[", "1", ",", "{", "}", "]">> =>
          result = Ok(JsonArray(<<Num(1), NoEntries>>))
    /\ Done /\ Strip(src) = <<"[", "1", ",", "[", "]", "]">> =>
          result = Ok(JsonArray(<<Num(1), NoItems>>))
    /\ Done /\ Strip(src) = <<"{", "'a'", ":", "{", "}", "}">> =>
          result = Ok(JsonObject([k \in {<<97>>} |-> NoEntries]))
    /\ Done /\ Strip(src) = <<"{", "'a'", ":", "[", "]", "}">> =>
          result = Ok(JsonObject([k \in {<<97>>} |-> NoItems]))

C12_Witness ==
    /\ Done
    /\ src = <<"{", "'a'", ":", "{", "NL", "}", "}">>
    /\ result.kind = "Ok"
    /\ result.value.fields[<<97>>] = NoEntries

-----------------------------------------------------------------------------
(* Strings the input ends in.                                              *)

(* C13, as stated: an input that ends before the closing quote of a string *)
(* fails with UnexpectedEof wherever inside the string it stops, inside a  *)
(* \u escape included.                                                     *)
C13_OpenStringIsEof ==
    Done /\ src \in OpenStrings => result = Failed(UnexpectedEof)

(* C13, amended: an input that ends before the closing quote of a string   *)
(* fails with UnexpectedEof when it stops after plain characters, after a  *)
(* complete escape or right after a backslash; when it stops inside a \u   *)
(* escape, before its fourth character, it fails with                      *)
(* InvalidUnicodeSequence carrying the characters read after the \u.       *)
C13_OpenStringOutsideUnicode ==
    /\ Done /\ src \in OpenPlain \cup OpenBackslash => result = Failed(UnexpectedEof)
    /\ Done /\ src \in OpenStrings =>
          \A d \in HexStarts :
              src \in OpenUnicode(d) => result = Failed(InvalidUnicodeSequence(Text(d)))

C13_Witness ==
    /\ Done
    /\ src = <<"[", "QUOTE", "a", "\\n", "BACKSLASH">>
    /\ result = Failed(UnexpectedEof)

-----------------------------------------------------------------------------
(* \u escapes that are no four hexadecimal digits of a character.          *)

(* C14, as stated: when the four characters after \u are incomplete, hold  *)
(* a character that is no hexadecimal digit, a sign included, or name a    *)
(* surrogate, the lexer returns InvalidUnicodeSequence carrying the        *)
(* characters read.                                                        *)
C14_UnicodeEscapeStrict ==
    Done /\ src \in UnicodeSources =>
        /\ \A four \in BadFours :
              src \in BadUnicode(four) =>
                  result = Failed(InvalidUnicodeSequence(Text(four)))
        /\ \A d \in CutFours :
              src \in OpenUnicode(d) => result = Failed(InvalidUnicodeSequence(Text(d)))

(* The escape \u+041 is taken for U+0041. *)
C14_SignAccepted ==
    /\ Done
    /\ src = <<"QUOTE", "\\u", "+", "0", "4", "1", "QUOTE">>
    /\ result = Ok(JsonString(<<65>>))

-----------------------------------------------------------------------------
(* The first error.                                                        *)

(* The error an input of FirstErrors ends with, read off the texts. *)
FirstError(first) ==
    CASE first = <<"[", ",">> -> UnexpectedToken("{:?}", TokPunct("Comma"))
      [] first = <<"{", "1">> ->
            UnexpectedToken("Expected string key, got {:?}", TokenOf("1"))
      [] first = <<"{", "'a'", "'b'">> ->
            UnexpectedToken("Expected ':', got {:?}", TokenOf("'b'"))
      [] first = <<"[", "1", ",", "]">> -> UnexpectedToken("Trailing comma in array", NoToken)
      [] first = <<"[", "1", "SP", "2">> ->
            UnexpectedToken("Expected ',' or ']', got {:?}", TokenOf("2"))
      [] first = <<"extra">> -> UnexpectedChar(101)
      [] first = <<"[", "nul", "x">> -> UnexpectedChar(120)
      [] first = <<"QUOTE", "BACKSLASH", "x">> -> InvalidEscapeSequence(120)
      [] first = <<"1", ".", "x">> -> InvalidNumber("Expected at least one digit", <<>>)
      [] first = <<"{", "}", "SP", "}">> -> UnexpectedToken("Expected end of input", NoToken)
      [] first = <<"QUOTE", "\\u", "D800">> -> InvalidUnicodeSequence(<<68, 56, 48, 48>>)

(* C15: the error parse_json returns is the first one raised from left to  *)
(* right, by the lexer or by the parser; with it the parse is over, no     *)
(* character after the place of the error has been consumed and no Value   *)
(* is returned.                                                            *)
C15_FirstErrorAborts ==
    /\ result.kind = "Err" => pc = "done" /\ result.value = NoValue
    /\ Done => result.kind \in {"Ok", "Err"}
    /\ Done /\ src \in ErrorSources =>
          \A first \in FirstErrors :
              src \in ErrorThen(first) =>
                  /\ result = Failed(FirstError(first))
                  /\ pos <= Len(Text(first))

C15_Witness ==
    /\ Done
    /\ src = <<"[", "nul", "x", "SP", "1", ".">>
    /\ result = Failed(UnexpectedChar(120))
    /\ pos = 5

-----------------------------------------------------------------------------
(* Runs of digits.                                                         *)

NoDigit == Failed(InvalidNumber("Expected at least one digit", <<>>))

(* C16: a number whose integer part, fraction or exponent has no digit     *)
(* fails with InvalidNumber, and no Number token is made of the digits     *)
(* read before.                                                            *)
C16_DigitRunsRequired ==
    Done /\ src \in DigitlessSources =>
        /\ result = NoDigit
        /\ current_token = IF src[1] = "[" THEN TokPunct("LeftBracket") ELSE NoToken

C16_Witness ==
    /\ Done
    /\ src = <<"[", "-", "12", ".", "5", "E", "+", "]">>
    /\ result = NoDigit

-----------------------------------------------------------------------------
(* Literals gone astray.                                                   *)

(* The index in ps of the beginning of the literal. *)
StartIndex(ps) == IF ps[1] = "[" THEN 2 ELSE 1

(* C17: after a first character n, t or f the lexer compares the           *)
(* characters that follow with null, true or false; the first that differs *)
(* gives UnexpectedToken carrying that character, the end of the input     *)
(* before the literal is complete gives UnexpectedEof, and what follows a  *)
(* complete literal is not looked at: the token is made first.             *)
C17_LiteralMatching ==
    /\ Done /\ src \in WrongLiterals =>
          result = Failed(UnexpectedChar(Lexeme(src[StartIndex(src) + 1])[1]))
    /\ Done /\ src \in CutLiterals => result = Failed(UnexpectedEof)
    /\ pc = "parse_value" /\ stack = <<>> /\ src \in AfterLiteral =>
          current_token = TokenOf(src[1]) /\ pos = Len(Lexeme(src[1]))
    /\ Done /\ src = <<"null", "x">> => result = Failed(UnexpectedChar(120))

C17_Witness ==
    /\ Done
    /\ src = <<"[", "fal", "l", "SP", "1">>
    /\ result = Failed(UnexpectedChar(108))

-----------------------------------------------------------------------------
(* Tokens that start no value.                                             *)

(* The index in ps of the token at the place of the value. *)
ValueIndex(ps) == Len(Beginning(BeforeValue, ps)) + 1

(* C18: where a value is expected, a lookahead of }, ], : or , fails with  *)
(* UnexpectedToken carrying the token, and no token at all fails with      *)
(* UnexpectedEof; parse_value consumes nothing: the lookahead is still the *)
(* token and the cursor is right behind it.                                *)
C18_NoValueToken ==
    /\ Done /\ src \in NoValueSources =>
          /\ result = Failed(UnexpectedToken("{:?}", TokenOf(src[ValueIndex(src)])))
          /\ current_token = TokenOf(src[ValueIndex(src)])
          /\ pos = Len(Text(SubSeq(src, 1, ValueIndex(src))))
    /\ Done /\ src \in EndsBeforeValue =>
          /\ result = Failed(UnexpectedEof)
          /\ current_token = NoToken
          /\ pos = Len(input)

C18_Witness ==
    /\ Done
    /\ src = <<"[", "1", ",", ",", "1", "]">>
    /\ result = Failed(UnexpectedToken("{:?}", TokPunct("Comma")))
    /\ pos = 4

-----------------------------------------------------------------------------
(* Keys.                                                                   *)

(* The index in ps of the token at the place of the key. *)
KeyIndex(ps) == Len(Beginning(KeyPlaces, ps)) + 1

(* The members of the object written before the place of the key. *)
MembersBefore(pre) ==
    CASE pre = <<"{", "'a'", ":", "1", ",">> -> [k \in {<<97>>} |-> Num(1)]
      [] pre = <<"{", "'a'", ":", "1", ",", "'b'", ":", "2", ",">> ->
            [k \in {<<97>>, <<98>>} |-> IF k = <<97>> THEN Num(1) ELSE Num(2)]
      [] OTHER -> <<>>

(* C19: at the place of a key, after { and after a comma, a token that is  *)
(* no String (and no }) fails with the unexpected-token error that names   *)
(* the string key expected, and the end of the input fails with            *)
(* UnexpectedEof; the object holds the members written before and no more. *)
C19_KeysAreStrings ==
    /\ Done /\ src \in NoKeySources =>
          /\ result = Failed(UnexpectedToken("Expected string key, got {:?}",
                                             TokenOf(src[KeyIndex(src)])))
          /\ stack # <<>>
          /\ stack[Len(stack)].object = MembersBefore(Beginning(KeyPlaces, src))
    /\ Done /\ src \in EndsBeforeKey =>
          /\ result = Failed(UnexpectedEof)
          /\ stack # <<>>
          /\ stack[Len(stack)].object = MembersBefore(Beginning(KeyPlaces, src))

C19_Witness ==
    /\ Done
    /\ src = <<"{", "'a'", ":", "1", ",", "null", "SP", ":", "1", "}">>
    /\ result = Failed(UnexpectedToken("Expected string key, got {:?}", TokNull))
    /\ DOMAIN stack[1].object = {<<97>>}

-----------------------------------------------------------------------------
(* Escapes that are none.                                                  *)

(* The index in ps of the backslash: the first one that is a lexeme of its *)
(* own.                                                                    *)
BackslashIndex(ps) ==
    CHOOSE i \in 1..Len(ps) :
        ps[i] = "BACKSLASH" /\ \A j \in 1..(i - 1) : ps[j] # "BACKSLASH"

(* C20: a backslash in a string before a character that is none of the     *)
(* quote, \, /, b, f, n, r, t and u fails with InvalidEscapeSequence       *)
(* carrying that character, whatever follows; no String is made.           *)
C20_InvalidEscape ==
    Done /\ src \in NoEscapeSources =>
        /\ result = Failed(InvalidEscapeSequence(Lexeme(src[BackslashIndex(src) + 1])[1]))
        /\ current_token.type # "String"

C20_Witness ==
    /\ Done
    /\ src = <<"[", "QUOTE", "a", "\\n", "BACKSLASH", "N", "QUOTE">>
    /\ result = Failed(InvalidEscapeSequence(78))

-----------------------------------------------------------------------------
(* One token of lookahead.                                                 *)

(* The calls of next_token so far that returned a token. *)
TokenCalls == {i \in DOMAIN calls : calls[i].kind = "tok"}

Produced == Cardinality(TokenCalls)

(* Where the last token the lexer produced ends; 0 before the first one. *)
LastTokenEnd ==
    IF TokenCalls = {} THEN 0
    ELSE calls[CHOOSE i \in TokenCalls : \A j \in TokenCalls : j <= i].pos

(* The lexer answered its last call with a token or with the end of input. *)
LexerAnswered == calls # <<>> /\ calls[Len(calls)].kind # "err"

(* parse_value has just returned a value to its caller. *)
ValueReturned == pc \in {"parse_end", "object_sep", "array_sep"}

(* The value parse_value has just returned. *)
Returned ==
    IF pc = "parse_end" THEN value
    ELSE IF pc = "array_sep" THEN Top(State).array[Len(Top(State).array)]
    ELSE Top(State).object[Top(State).key]

(* The token tok is the last token of the text of the value v. *)
EndsValue(tok, v) ==
    CASE v.type = "Array"  -> tok = TokPunct("RightBracket")
      [] v.type = "Object" -> tok = TokPunct("RightBrace")
      [] OTHER             -> tok.type = v.type /\ Leaf(tok) = v

(* The token written after the first k lexemes of ps, or end of input. *)
TokenAfter(ps, k) == IF k < Len(ps) THEN TokenOf(ps[k + 1]) ELSE NoToken

-----------------------------------------------------------------------------
(* No call of the lexer after its last answer.                             *)

(* C22: a call of next_token that returns end of input or an error is the  *)
(* last call of next_token of the parse: every call before the last one    *)
(* returned a token, every call of advance_token followed a call that      *)
(* returned a token, and once the lexer has returned an error or the end   *)
(* of the input the parser holds no token to go on from.                   *)
C22_NoCallAfterEnd ==
    /\ \A i \in 1..(Len(calls) - 1) : calls[i].kind = "tok"
    /\ consumed <= Cardinality(TokenCalls)
    /\ calls # <<>> /\ calls[Len(calls)].kind = "err" => Done
    /\ calls # <<>> /\ calls[Len(calls)].kind = "eof" /\ ~Done =>
          current_token = NoToken

C22_Witness ==
    /\ Done
    /\ src = <<"[", "nul", "x", "SP", "]", ",">>
    /\ Len(calls) = 2
    /\ calls[2].kind = "err"
    /\ pos < Len(input)
    /\ result = Failed(UnexpectedChar(120))

-----------------------------------------------------------------------------
(* Termination.                                                            *)

(* The calls of next_token read the input from left to right, one after    *)
(* the other: the first begins at the start, each begins where the one     *)
(* before it ended, none ends before it began, and one that returns a      *)
(* token ends at least one character after it began.                       *)
ReadOnce ==
    /\ pos <= Len(input)
    /\ calls # <<>> => calls[1].from = 0 /\ calls[Len(calls)].pos = pos
    /\ \A i \in DOMAIN calls :
          /\ calls[i].from <= calls[i].pos
          /\ calls[i].kind = "tok" => calls[i].from + 1 <= calls[i].pos
          /\ i > 1 => calls[i].from = calls[i - 1].pos
    /\ Len(calls) <= Len(input) + 1
    /\ consumed <= Len(input)

(* What is left of the parse: the calls of next_token the input still      *)
(* allows, each followed by at most two steps that call none.              *)
Phase ==
    CASE pc = "done" -> 0
      [] pc \in {"new", "parse_value"} -> 2
      [] OTHER -> 1

Rank == 3 * (Len(input) + 1 - Len(calls)) + Phase

(* The step goes back to the beginning of the loop of parse_object or of   *)
(* parse_array.                                                            *)
LoopsAgain ==
    \/ pc = "object_sep" /\ pc' = "object_key"
    \/ pc = "array_sep" /\ pc' = "parse_value"

(* A step of the parse never moves the cursor backwards, a step back to    *)
(* the beginning of a loop has consumed a token, and every step leaves     *)
(* less of the parse to do.                                                *)
MovesOn ==
    /\ pos <= pos'
    /\ LoopsAgain =>
          /\ consumed' >= consumed + 1
          /\ Len(calls') = Len(calls) + 1
          /\ Len(stack') = Len(stack)
    /\ Rank' < Rank

(* parse_json has returned a value or an error. *)
Returns ==
    \/ result.kind = "Ok" /\ result.value # NoValue /\ result.error = NoError
    \/ result.kind = "Err" /\ result.value = NoValue /\ result.error # NoError

(* The parse is at a block of the parser, which takes a step whatever the  *)
(* state, or parse_json has returned; what is left to do is never less     *)
(* than nothing.                                                           *)
RunsOrReturns ==
    /\ pc \in {"new", "parse_value", "parse_object", "object_key", "object_colon",
               "object_sep", "parse_array", "array_sep", "parse_end", "done"}
    /\ Rank >= 0
    /\ Done <=> Returns
    /\ Done => Rank = 3 * (Len(input) + 1 - Len(calls))

(* C23: the cursor of the lexer never moves backwards, a call of           *)
(* next_token that returns a token moves it by at least one character, an  *)
(* iteration of the loop of parse_object or parse_array consumes at least  *)
(* one token, every character is read at most once, and every parse ends   *)
(* with a value or an error: until parse_json has returned a step can be   *)
(* taken, and every step lowers a bound on the steps left, which is never  *)
(* negative, so that a parse of an input of n characters takes at most     *)
(* 3 * (n + 1) + 2 steps.                                                  *)
C23_Terminates == []ReadOnce /\ []RunsOrReturns /\ [][MovesOn]_vars

C23_Witness ==
    /\ Done
    /\ src = <<"[", "1", ",", "2", ",", "3", "]">>
    /\ result.kind = "Ok"
    /\ Len(calls) = 8
    /\ consumed = 7
    /\ pos = Len(input)

====
